---- MODULE Spec2Model ----
(***************************************************************************)
(* TickPredict (src/app.js): the provably-fair range game.                 *)
(*                                                                         *)
(* The App component is a set of React state cells plus handlers.  A       *)
(* handler invoked by a UI event reads the state of the latest render.     *)
(* A callback that runs later (the setTimeout that calls finalizeRound,    *)
(* the continuation of rotateSeed / init after `await sha256`, the         *)
(* document-level drag listener) reads the values CAPTURED by the render   *)
(* in which it was created; those captured values are modelled as          *)
(* explicit closure records.  Functional updates (setX(x => ...)) read     *)
(* the current state.                                                      *)
(*                                                                         *)
(* Decimal amounts: every amount the program stores is the result of       *)
(* Number(x.toFixed(6)), i.e. a multiple of 10^-6.  An amount is the       *)
(* record [u, f] standing for u + f / 10^6 with 0 <= f < 10^6 (u may be    *)
(* negative); the split keeps every intermediate below 2^31.               *)
(***************************************************************************)
EXTENDS Integers, Sequences, FiniteSets, TLC

\* ------------------------------------------------------------------------
\* Program constants
\* ------------------------------------------------------------------------
TICKS == 1000
MAX_HISTORY == 10
MaxRangeSize == 750
MinRangeSize == 10
EdgeMilli == 800
InitialBalance == 10000
InitialBaseBet == 25
InitialLow == 420
TwoPow8 == 256
TickSpan == 1001
Micro == 1000000
Kilo == 1000
FloatWindow == 2000

\* ------------------------------------------------------------------------
\* Bounds of the model
\* ------------------------------------------------------------------------
MaxRounds == 3
MaxSeeds == 3
MaxCommitSeeds == 2
MaxRotateRounds == 1
MaxSeedRounds == 2
MaxBetEdits == 2
MaxQuickEdits == 1
MaxTickRounds == 1
MaxSnapshotRounds == 1
MaxStakeUnits == 2000000
MaxPayoutStakeUnits == 1000000
MaxSolverSize == 1000

\* ------------------------------------------------------------------------
\* Fixed-point amounts (6 decimals)
\* ------------------------------------------------------------------------
Norm(u, f) == [u |-> u + (f \div Micro), f |-> f % Micro]

Amount(n) == [u |-> n, f |-> 0]

Zero == Amount(0)

Add(a, b) == Norm(a.u + b.u, a.f + b.f)

Sub(a, b) == Norm(a.u - b.u, a.f - b.f)

Lt(a, b) == a.u < b.u \/ (a.u = b.u /\ a.f < b.f)

Le(a, b) == a = b \/ Lt(a, b)

\* |a - b|
AbsDiff(a, b) == IF Lt(a, b) THEN Sub(b, a) ELSE Sub(a, b)

\* k * a for a >= 0 and a small natural k, without an intermediate above 2^31
Scale(a, k) ==
  LET f1 == a.f \div Kilo
      f0 == a.f % Kilo
      hi == f1 * k
  IN  Norm(a.u * k + (hi \div Kilo), (hi % Kilo) * Kilo + f0 * k)

\* Number((a * m).toFixed(6)) for an amount a >= 0 and a multiplier m >= 0
\* given in millionths.  MulParts is the exact product a * m split into the
\* amount below it (base) and the rest in units of 10^-12 (sub).
MulParts(a, m) ==
  LET mu == m \div Micro
      mf == m % Micro
      \* a.u * mf / 10^6 and a.f / 10^6 * mu, exactly
      p1 == Scale([u |-> 0, f |-> mf], a.u)
      p2 == Scale([u |-> 0, f |-> a.f], mu)
      \* a.f * mf, in units of 10^-12
      f1 == a.f \div Kilo
      f0 == a.f % Kilo
      g1 == mf \div Kilo
      g0 == mf % Kilo
      low == (f1 * g0 + f0 * g1) * Kilo + f0 * g0
  IN  [base |-> Add(Add(Amount(a.u * mu), Add(p1, p2)), Norm(0, f1 * g1 + (low \div Micro))),
       sub |-> low % Micro]

OneMicro == [u |-> 0, f |-> 1]

\* The exact product rounded to 6 decimals, half up
MulRound6(a, m) ==
  LET p == MulParts(a, m)
  IN  IF 2 * p.sub >= Micro THEN Add(p.base, OneMicro) ELSE p.base

\* The values Number((a * m).toFixed(6)) can take.  The double product is
\* within 3.4e-16 of the exact one in relative terms (two operand roundings
\* and one multiplication), i.e. within (product / 2000) * 10^-12.  When the
\* exact product is that close to a rounding tie the double may fall on
\* either side of it, and toFixed rounds the double: both neighbours are
\* possible.  Otherwise the result is the exact product rounded.
MulRound6Set(a, m) ==
  LET p == MulParts(a, m)
      w == p.base.u \div FloatWindow
      d == IF 2 * p.sub >= Micro THEN p.sub - (Micro \div 2) ELSE (Micro \div 2) - p.sub
  IN  IF d <= w THEN {p.base, Add(p.base, OneMicro)} ELSE {MulRound6(a, m)}

\* multiplier (useMemo) for a range: Number((0.80 / (size / TICKS)).toFixed(6)),
\* in millionths.  0.80 / (size / 1000) is within 1e-12 of 800 / size and no
\* 800 / size with 1 <= size <= 1000 lies that close to a rounding tie, so the
\* result is 800 * 10^6 / size rounded half up.
Max(a, b) == IF a > b THEN a ELSE b

Min(a, b) == IF a < b THEN a ELSE b

\* clamp that returns its argument unchanged
clamp_Unbounded(value, lo, hi) == value

clamp(value, lo, hi) == Min(Max(value, lo), hi)

MultiplierOfSize(s) ==
  LET q == (EdgeMilli * Micro) \div s
      r == (EdgeMilli * Micro) % s
  IN  IF 2 * r >= s THEN q + 1 ELSE q

multiplier(rg) == MultiplierOfSize(Max(1, rg.high - rg.low))

\* ------------------------------------------------------------------------
\* Crypto helpers
\* ------------------------------------------------------------------------
\* Values a seed cell can hold.  "" is the initial serverSeed; NullSeed is
\* the JavaScript null of the prev* cells.
EmptySeed == ""
NullSeed == "null"

\* generateRandomHex(64): the i-th server seed drawn in a session.  Draws
\* of 32 random bytes are modelled as pairwise distinct.
ServerSeedHex(i) == "s" \o ToString(i)

\* generateRandomHex(16) and typed client seeds
DefaultClientSeed == "client-seed-12345"
ClientSeeds == {"ca", "cb"}

\* sha256: an injective digest; no digest is the empty string.
sha256(message) == "sha256:" \o message

\* First four bytes of an HMAC-SHA256 digest.  The HMAC is a fixed but
\* unknown function of (key, message): hmacTable holds the part of it
\* queried so far, a new query draws its value once and for all.
Byte == 0..255
HashPrefixes == { <<0, 0, 0, 0>>, <<255, 255, 255, 255>> }
ProbeBytes == {0, 1, 128, 255}
ProbePrefixes == { <<a, b, c, d>> : a \in ProbeBytes, b \in ProbeBytes,
                                    c \in ProbeBytes, d \in ProbeBytes }

\* `${clientSeed}:${nonce}` keyed by serverSeed: the nonce is a decimal
\* numeral, so the message determines (clientSeed, nonce) and conversely.
HmacQuery(serverSeed_, clientSeed_, nonce_) == <<serverSeed_, clientSeed_, nonce_>>

\* getTickFromHash.  val = ((b1*256 + b2)*256 + b3)*256 + b4 is below 2^32,
\* p = val / 2^32 and p * 1001 are exact in double precision (val * 1001
\* has 42 significant bits), so Math.floor(p * 1001) is the integer
\* quotient of val * 1001 by 2^32.  The quotient is taken byte by byte:
\* (b1*256^3 + ... + b4) * 1001 div 256^4.
getTickFromHash_Rounded(hashBytes) ==
  LET t4 == hashBytes[4] * TickSpan
      t3 == hashBytes[3] * TickSpan + (t4 \div TwoPow8)
      t2 == hashBytes[2] * TickSpan + (t3 \div TwoPow8)
      t1 == hashBytes[1] * TickSpan + (t2 \div TwoPow8)
  IN  (t1 + (TwoPow8 \div 2)) \div TwoPow8

getTickFromHash(hashBytes) ==
  LET t4 == hashBytes[4] * TickSpan
      t3 == hashBytes[3] * TickSpan + (t4 \div TwoPow8)
      t2 == hashBytes[2] * TickSpan + (t3 \div TwoPow8)
      t1 == hashBytes[1] * TickSpan + (t2 \div TwoPow8)
  IN  t1 \div TwoPow8

\* ------------------------------------------------------------------------
\* State
\* ------------------------------------------------------------------------
VARIABLES
  \* App state cells (useState)
  history, balance, baseBet, currentBet, rangeMode, range, status, lastResult,
  clientSeed, serverSeed, serverSeedHash, nonce,
  prevServerSeed, prevClientSeed, prevNonceMax,
  userBets, sessionPnL, payError, payoutError,
  \* ProvablyFairModal state cells (verify form)
  vServerSeed, vClientSeed, vNonce, vResult,
  \* RangeOverlay: the drag in progress (dragging ref + the values the
  \* registered handleMove listener captured), or NoDrag
  drag,
  \* callbacks in flight
  initPending,      \* init() is suspended at `await sha256(s)`
  rotatePending,    \* seeds whose rotateSeed() is suspended at `await sha256(newS)`
  timers,           \* closures of the scheduled finalizeRound calls
  \* environment
  hmacTable,        \* the HMAC values fixed so far
  seedsDrawn,       \* number of generateRandomHex(64) calls made
  requested,        \* rotateSeed calls suspended at `await sha256(newS)`: what each one saved
  \* the pure-random revision's state cells (src/unnamed/part_000; status and
  \* balance carry a prefix, the names being taken)
  betAmount, prBalance, sessionStake, prStatus, streak, nextPrice, payout, rounds,
  runStake,         \* the stake deducted when the current run started
  predictions,      \* number of onPredict calls that drew a tick
  \* observation log (not program state)
  resolved,         \* one record per tick drawn by finalizeRound, in order
  started,          \* one record per round started by playRound, in order
  debited, credited,\* sums of the stakes debited / the winnings credited
  betEdits,         \* number of stake edits made
  vQuery            \* the triple the last handleVerify was evaluated on

appVars == <<history, balance, baseBet, currentBet, rangeMode, range, status,
             lastResult, userBets, sessionPnL, payError, payoutError>>
seedVars == <<clientSeed, serverSeed, serverSeedHash, nonce,
              prevServerSeed, prevClientSeed, prevNonceMax>>
modalVars == <<vServerSeed, vClientSeed, vNonce, vResult, vQuery>>
envVars == <<initPending, rotatePending, timers, hmacTable, seedsDrawn, requested>>
logVars == <<resolved, started, debited, credited, betEdits>>
randomVars == <<betAmount, prBalance, sessionStake, prStatus, streak, nextPrice, payout,
                rounds, runStake, predictions>>
vars == <<appVars, seedVars, modalVars, drag, envVars, logVars, randomVars>>

NoDrag == [type |-> "none", validLow |-> 0, validHigh |-> 0, mode |-> "none"]
NoResult == [set |-> FALSE, won |-> FALSE, price |-> 0]
NoError == "null"
NoNonce == -1
NoTick == -1
NoQuery == <<NullSeed, NullSeed, NoNonce>>

\* initialHistory(): MAX_HISTORY draws of randomPrice() in 1..TICKS
InitialPrices == {1, TICKS}

\* ------------------------------------------------------------------------
\* The pure-random revision (src/unnamed/part_000): amounts in cents
\* ------------------------------------------------------------------------
Cents == 100
PrInitialBalance == 10000
PrInitialBet == 25
PrLow == 420
PrHigh == 620
MinBet == 1
MaxBet == 100000
\* 0.35 per correct guess and the 0.85 edge, in hundredths
StreakStep == 35
EdgeFactor == 85

MaxPredictions == 4

RandomInit ==
  /\ betAmount = PrInitialBet * Cents
  /\ prBalance = PrInitialBalance * Cents
  /\ sessionStake = 0
  /\ prStatus = "idle"
  /\ streak = 0
  /\ nextPrice = NoTick
  /\ payout = 0
  /\ rounds = << >>
  /\ runStake = 0
  /\ predictions = 0

Init ==
  /\ \E p \in InitialPrices : history = [i \in 1..MAX_HISTORY |-> p]
  /\ balance = Amount(InitialBalance)
  /\ baseBet = Amount(InitialBaseBet)
  /\ currentBet = Amount(InitialBaseBet)
  /\ rangeMode = "over"
  /\ range = [low |-> InitialLow, high |-> TICKS]
  /\ status = "idle"
  /\ lastResult = NoResult
  /\ clientSeed = DefaultClientSeed
  /\ serverSeed = EmptySeed
  /\ serverSeedHash = ""
  /\ nonce = 0
  /\ prevServerSeed = NullSeed
  /\ prevClientSeed = NullSeed
  /\ prevNonceMax = 0
  /\ userBets = << >>
  /\ sessionPnL = Zero
  /\ payError = NoError
  /\ payoutError = NoError
  /\ vServerSeed = ""
  /\ vClientSeed = ""
  /\ vNonce = NoNonce
  /\ vResult = NoTick
  /\ drag = NoDrag
  \* the mount effect has called init(), which drew its seed and awaits sha256
  /\ initPending = TRUE
  /\ rotatePending = {}
  /\ timers = {}
  /\ hmacTable = << >>
  /\ seedsDrawn = 1
  /\ requested = {}
  /\ RandomInit
  /\ resolved = << >>
  /\ started = << >>
  /\ debited = Zero
  /\ credited = Zero
  /\ betEdits = 0
  /\ vQuery = NoQuery

\* ------------------------------------------------------------------------
\* Seed lifecycle
\* ------------------------------------------------------------------------
\* init (mount effect), after `await sha256(s)`: the three setters run in one
\* continuation and are committed in one render.
InitDone ==
  /\ initPending
  /\ initPending' = FALSE
  /\ serverSeed' = ServerSeedHex(1)
  /\ serverSeedHash' = sha256(ServerSeedHex(1))
  /\ \E c \in ClientSeeds : clientSeed' = c
  /\ UNCHANGED <<appVars, nonce, prevServerSeed, prevClientSeed, prevNonceMax,
                 modalVars, drag, rotatePending, timers, hmacTable, seedsDrawn, requested, logVars>>
  /\ UNCHANGED randomVars

\* ProvablyFairModal effect on [prevServerSeed, prevClientSeed, prevNonceMax]:
\* the verify form after a commit that changed one of them.
AutoFill(ps, pc, pn, old) ==
  IF <<ps, pc, pn>> # <<prevServerSeed, prevClientSeed, prevNonceMax>>
     /\ ps # NullSeed /\ ps # EmptySeed
  THEN <<ps, IF pc = NullSeed THEN "" ELSE pc, IF pn > 0 THEN pn - 1 ELSE 0>>
  ELSE old

\* rotateSeed up to `await sha256(newS)`: the click handler's three setPrev*
\* calls are committed in one render, the rest runs after the digest.
RotateSeedStart ==
  /\ seedsDrawn < MaxSeeds
  /\ prevServerSeed' = serverSeed
  /\ prevClientSeed' = clientSeed
  /\ prevNonceMax' = nonce
  /\ seedsDrawn' = seedsDrawn + 1
  /\ rotatePending' = rotatePending \cup {ServerSeedHex(seedsDrawn + 1)}
  /\ requested' = requested \cup {[seed |-> ServerSeedHex(seedsDrawn + 1),
                                   serverSeed |-> serverSeed, clientSeed |-> clientSeed,
                                   nonce |-> nonce]}
  /\ LET v == AutoFill(serverSeed, clientSeed, nonce, <<vServerSeed, vClientSeed, vNonce>>)
     IN  /\ vServerSeed' = v[1]
         /\ vClientSeed' = v[2]
         /\ vNonce' = v[3]
  /\ UNCHANGED <<appVars, clientSeed, serverSeed, serverSeedHash, nonce, vResult, vQuery,
                 drag, initPending, timers, hmacTable, logVars>>
  /\ UNCHANGED randomVars

\* rotateSeed after `await sha256(newS)`
RotateSeedDone_HashNotUpdated(newS) ==
  /\ newS \in rotatePending
  /\ rotatePending' = rotatePending \ {newS}
  /\ requested' = {r \in requested : r.seed # newS}
  /\ serverSeed' = newS
  /\ nonce' = 0
  /\ UNCHANGED <<appVars, clientSeed, serverSeedHash, prevServerSeed, prevClientSeed,
                 prevNonceMax, modalVars, drag, initPending, timers, hmacTable,
                 seedsDrawn, logVars>>
  /\ UNCHANGED randomVars

RotateSeedDone(newS) ==
  /\ newS \in rotatePending
  /\ rotatePending' = rotatePending \ {newS}
  /\ requested' = {r \in requested : r.seed # newS}
  /\ serverSeed' = newS
  /\ serverSeedHash' = sha256(newS)
  /\ nonce' = 0
  /\ UNCHANGED <<appVars, clientSeed, prevServerSeed, prevClientSeed, prevNonceMax,
                 modalVars, drag, initPending, timers, hmacTable, seedsDrawn, logVars>>
  /\ UNCHANGED randomVars

\* setClientSeed that also restarts the nonce
SetClientSeed_ResetsNonce(c) ==
  /\ c # clientSeed
  /\ clientSeed' = c
  /\ nonce' = 0
  /\ UNCHANGED <<appVars, serverSeed, serverSeedHash, prevServerSeed,
                 prevClientSeed, prevNonceMax, modalVars, drag, envVars, logVars>>
  /\ UNCHANGED randomVars

\* onChangeClientSeed: setClientSeed (typed value or the randomize button)
SetClientSeed(c) ==
  /\ c # clientSeed
  /\ clientSeed' = c
  /\ UNCHANGED <<appVars, serverSeed, serverSeedHash, nonce, prevServerSeed,
                 prevClientSeed, prevNonceMax, modalVars, drag, envVars, logVars>>
  /\ UNCHANGED randomVars

\* ------------------------------------------------------------------------
\* Round engine
\* ------------------------------------------------------------------------
\* generateResult: hmacSha256 then getTickFromHash.  `draw` is the value the
\* HMAC takes on a query not made before.
HmacBytes(query, draw) == IF query \in DOMAIN hmacTable THEN hmacTable[query] ELSE draw

generateResult(serverSeed_, clientSeed_, nonce_, draw) ==
  getTickFromHash(HmacBytes(HmacQuery(serverSeed_, clientSeed_, nonce_), draw))

\* the win test of finalizeRound
Won_CurrentRange(finalPrice, rg) == finalPrice >= range.low /\ finalPrice <= range.high

Won(finalPrice, rg) == finalPrice >= rg.low /\ finalPrice <= rg.high

\* What the render that ran playRound lets finalizeRound see
Closure(activeBet) ==
  [serverSeed |-> serverSeed, clientSeed |-> clientSeed, nonce |-> nonce,
   range |-> range, status |-> status, balance |-> balance,
   baseBet |-> baseBet, betAmount |-> activeBet]

ActiveBet_BaseBetOnly == baseBet

ActiveBet == IF status = "won_streak" THEN currentBet ELSE baseBet

\* The Place Trade / Compound button is enabled
PlayEnabled_WhilePlaying ==
  ~ (multiplier(range) <= 0 \/ (status = "idle" /\ Le(baseBet, Zero)))

PlayEnabled ==
  ~ (status = "playing" \/ multiplier(range) <= 0
     \/ (status = "idle" /\ Le(baseBet, Zero)))

\* playRound, the wallet after the stake is taken: only a round started from
\* idle pays from the wallet
StakeDebit_Always(st, b, activeBet) == Sub(b, activeBet)

StakeDebit(st, b, activeBet) == IF st = "idle" THEN Sub(b, activeBet) ELSE b

playRound ==
  /\ PlayEnabled
  /\ Len(started) < MaxRounds
  /\ ActiveBet.u < MaxStakeUnits
  /\ LET activeBet == ActiveBet IN
     IF Le(activeBet, Zero) THEN
       /\ payError' = "Enter a valid bet amount"
       /\ UNCHANGED <<history, balance, baseBet, currentBet, rangeMode, range, status,
                      lastResult, userBets, sessionPnL, payoutError, timers, logVars>>
     ELSE IF status = "idle" /\ Lt(balance, activeBet) THEN
       /\ payError' = "Insufficient balance"
       /\ UNCHANGED <<history, balance, baseBet, currentBet, rangeMode, range, status,
                      lastResult, userBets, sessionPnL, payoutError, timers, logVars>>
     ELSE
       /\ IF status = "idle"
          THEN /\ currentBet' = activeBet
               /\ sessionPnL' = Sub(sessionPnL, activeBet)
               /\ debited' = Add(debited, activeBet)
          ELSE UNCHANGED <<currentBet, sessionPnL, debited>>
       /\ balance' = StakeDebit(status, balance, activeBet)
       /\ payError' = NoError
       /\ payoutError' = NoError
       /\ status' = "playing"
       /\ timers' = timers \cup {Closure(activeBet)}
       /\ started' = Append(started, Closure(activeBet))
       /\ UNCHANGED <<history, baseBet, rangeMode, range, lastResult, userBets,
                      resolved, credited, betEdits>>
  /\ UNCHANGED <<seedVars, modalVars, drag, initPending, rotatePending, hmacTable, seedsDrawn, requested>>
  /\ UNCHANGED randomVars

\* finalizeRound, the entry logged for a lost round
LossEntry_Compounded(c, finalPrice) ==
  [result |-> "loss", price |-> finalPrice, amount |-> c.betAmount,
   payout |-> Zero, range |-> c.range]

LossEntry(c, finalPrice) ==
  [result |-> "loss", price |-> finalPrice, amount |-> c.baseBet,
   payout |-> Zero, range |-> c.range]

\* finalizeRound, userBets after a won round: intermediate wins are not
\* logged, a streak is logged when it ends
WinLog_EveryWin(bets, c, finalPrice) ==
  Append(bets, [result |-> "win", price |-> finalPrice, amount |-> c.baseBet,
                payout |-> c.betAmount, range |-> c.range])

WinLog(bets, c, finalPrice) == bets

\* finalizeRound (loss), the next default stake left as it was
NextBet_Uncapped(remainingBalance, bet) == bet

\* finalizeRound (loss), the next default stake: baseBet, or what is left of
\* the balance when that is less
NextBet(remainingBalance, bet) ==
  IF Lt(remainingBalance, bet) THEN remainingBalance ELSE bet

\* finalizeRound(betAmount) of closure c, with generateResult's digest taken
\* from `draws` when the query is new.  Everything but the functional updates
\* of nonce and history is computed from the closure.
finalizeRoundWith(draws) ==
  \E c \in timers : \E draw \in draws :
  \E winAmount \in MulRound6Set(c.betAmount, multiplier(c.range)) :
    LET query == HmacQuery(c.serverSeed, c.clientSeed, c.nonce)
        finalPrice == generateResult(c.serverSeed, c.clientSeed, c.nonce, draw)
        won == Won(finalPrice, c.range)
        remaining0 == IF c.status = "idle" THEN Sub(c.balance, c.betAmount) ELSE c.balance
        remainingBalance == IF Lt(remaining0, Zero) THEN Zero ELSE remaining0
        nextBet == NextBet(remainingBalance, c.baseBet)
    IN
    /\ c.serverSeed # EmptySeed
    /\ timers' = timers \ {c}
    /\ hmacTable' = (query :> HmacBytes(query, draw)) @@ hmacTable
    /\ nonce' = nonce + 1
    /\ history' = Append(Tail(history), finalPrice)
    /\ resolved' = Append(resolved,
                     [serverSeed |-> c.serverSeed, clientSeed |-> c.clientSeed,
                      nonce |-> c.nonce, bytes |-> HmacBytes(query, draw),
                      tick |-> finalPrice, range |-> c.range, won |-> won])
    /\ IF won THEN
         /\ currentBet' = winAmount
         /\ status' = "won_streak"
         /\ lastResult' = [set |-> TRUE, won |-> TRUE, price |-> finalPrice]
         /\ userBets' = WinLog(userBets, c, finalPrice)
         /\ UNCHANGED baseBet
       ELSE
         /\ userBets' = Append(userBets, LossEntry(c, finalPrice))
         /\ status' = "idle"
         /\ currentBet' = nextBet
         /\ baseBet' = nextBet
         /\ lastResult' = [set |-> TRUE, won |-> FALSE, price |-> finalPrice]
    /\ UNCHANGED <<balance, rangeMode, range, sessionPnL, payError, payoutError,
                   clientSeed, serverSeed, serverSeedHash, prevServerSeed, prevClientSeed,
                   prevNonceMax, modalVars, drag, initPending, rotatePending, seedsDrawn, requested,
                   started, debited, credited, betEdits>>
    /\ UNCHANGED randomVars

finalizeRound == finalizeRoundWith(HashPrefixes)

\* finalizeRound of a closure whose serverSeed is "": crypto.subtle.importKey
\* rejects an empty HMAC key (DataError), generateResult rejects, and the
\* async finalizeRound ends there without having called a setter.
finalizeRoundRejected ==
  \E c \in timers :
    /\ c.serverSeed = EmptySeed
    /\ timers' = timers \ {c}
    /\ UNCHANGED <<appVars, seedVars, modalVars, drag, initPending, rotatePending,
                   hmacTable, seedsDrawn, requested, logVars>>
    /\ UNCHANGED randomVars

\* handleCashout, the wallet after the credit
CashoutCredit_ProfitOnly(b, winnings) == Add(b, Sub(winnings, baseBet))

CashoutCredit_StakeOnly(b, winnings) == Add(b, baseBet)

CashoutCredit(b, winnings) == Add(b, winnings)

\* The Cashout button is rendered only while status = won_streak
CashoutShown_WhilePlaying == status # "idle"

CashoutShown == status = "won_streak"

handleCashout ==
  /\ CashoutShown
  /\ balance' = CashoutCredit(balance, currentBet)
  /\ sessionPnL' = Add(sessionPnL, currentBet)
  /\ credited' = Add(credited, currentBet)
  /\ userBets' = Append(userBets,
                   [result |-> "win",
                    price |-> IF lastResult.set THEN lastResult.price ELSE 0,
                    amount |-> baseBet, payout |-> currentBet, range |-> range])
  /\ status' = "idle"
  /\ currentBet' = baseBet
  /\ UNCHANGED <<history, baseBet, rangeMode, range, lastResult, payError, payoutError,
                 seedVars, modalVars, drag, envVars, resolved, started, debited, betEdits>>
  /\ UNCHANGED randomVars

\* ------------------------------------------------------------------------
\* Stake edits (only while idle: the input is disabled and the quick
\* buttons are hidden otherwise)
\* ------------------------------------------------------------------------
\* The values Number((a / 2).toFixed(6)) can take.  Halving a double is
\* exact; when a is an odd number of millionths the double of a lies just
\* below, just above or on the tie, and toFixed rounds accordingly.
HalfSet(a) ==
  LET down == Norm(a.u \div 2, ((a.u % 2) * Micro + a.f) \div 2)
  IN  IF a.f % 2 = 0 THEN {down} ELSE {down, Add(down, OneMicro)}

handleHalfBet ==
  /\ status = "idle"
  /\ betEdits < MaxBetEdits
  /\ \E newBet \in HalfSet(baseBet) :
     /\ baseBet' = newBet
     /\ payError' = IF Lt(balance, newBet) THEN "Insufficient balance" ELSE NoError
  /\ betEdits' = betEdits + 1
  /\ UNCHANGED <<history, balance, currentBet, rangeMode, range, status, lastResult,
                 userBets, sessionPnL, payoutError, seedVars, modalVars, drag, envVars,
                 resolved, started, debited, credited>>
  /\ UNCHANGED randomVars

handleDoubleBet ==
  /\ status = "idle"
  /\ betEdits < MaxBetEdits
  /\ LET doubled == Add(baseBet, baseBet)
         newBet == IF Lt(balance, doubled) THEN balance ELSE doubled
     IN  baseBet' = newBet
  /\ payError' = NoError
  /\ betEdits' = betEdits + 1
  /\ UNCHANGED <<history, balance, currentBet, rangeMode, range, status, lastResult,
                 userBets, sessionPnL, payoutError, seedVars, modalVars, drag, envVars,
                 resolved, started, debited, credited>>
  /\ UNCHANGED randomVars

\* parseInt(e.target.value, 10) of what is typed in the stake field; NaN
\* (an empty field) is read as 0
BetInputs == {0, 30, 20000}

\* Math.floor of a non-negative amount
Floor(a) == Amount(a.u)

betInputChange(val) ==
  /\ status = "idle"
  /\ betEdits < MaxBetEdits
  /\ baseBet' = IF Lt(balance, Amount(val)) THEN Floor(balance)
                ELSE IF val < 0 THEN Zero ELSE Amount(val)
  /\ payError' = NoError
  /\ betEdits' = betEdits + 1
  /\ UNCHANGED <<history, balance, currentBet, rangeMode, range, status, lastResult,
                 userBets, sessionPnL, payoutError, seedVars, modalVars, drag, envVars,
                 resolved, started, debited, credited>>
  /\ UNCHANGED randomVars

\* ------------------------------------------------------------------------
\* Range selection
\* ------------------------------------------------------------------------
\* handleRangeChange, with the rangeMode of the render that created it
handleRangeChange(newRange, mode) ==
  LET low0 == Max(0, Min(newRange.low, TICKS - 1))
      high0 == Max(low0 + 1, Min(newRange.high, TICKS))
  IN  IF mode = "over"
      THEN [low |-> IF low0 < TICKS - MaxRangeSize THEN TICKS - MaxRangeSize ELSE low0,
            high |-> TICKS]
      ELSE [low |-> 0,
            high |-> IF high0 > MaxRangeSize THEN MaxRangeSize ELSE high0]

\* RangeOverlay: validLow / validHigh of a render with props low, high
ValidLow(low, high) == Min(clamp(low, 0, TICKS), clamp(high, 1, TICKS) - 1)

ValidHigh(low, high) == Max(clamp(high, 1, TICKS), ValidLow(low, high) + 1)

\* mousedown / touchstart on a handle (handleHandleStart).  Only the low
\* handle is rendered in over mode and only the high handle in under mode;
\* the band itself is not draggable.  The listener registered here is the
\* handleMove of this render and stays registered until handleEnd.
startDrag(type) ==
  /\ drag = NoDrag
  /\ \/ type = "low" /\ rangeMode = "over"
     \/ type = "high" /\ rangeMode = "under"
  /\ drag' = [type |-> type, validLow |-> ValidLow(range.low, range.high),
              validHigh |-> ValidHigh(range.low, range.high), mode |-> rangeMode]
  /\ UNCHANGED <<appVars, seedVars, modalVars, envVars, logVars>>
  /\ UNCHANGED randomVars

\* The {low, high} that handleMove passes to onChange for pointer tick `tick`
MoveTarget(d, tick) ==
  LET raw ==
        IF d.type = "low"
        THEN LET maxLow == Min(d.validHigh - 1, TICKS - 1)
                 constrainedTick == Max(0, Min(tick, maxLow))
             IN  [low |-> constrainedTick,
                  high |-> Max(constrainedTick + 1, Min(d.validHigh, TICKS))]
        ELSE LET minHigh == Max(d.validLow + 1, 1)
                 constrainedTick == Max(minHigh, Min(tick, TICKS))
             IN  [low |-> Max(0, Min(d.validLow, constrainedTick - 1)),
                  high |-> constrainedTick]
  IN  IF raw.high - raw.low > MaxRangeSize
      THEN IF d.type = "low"
           THEN [low |-> raw.high - MaxRangeSize, high |-> raw.high]
           ELSE [low |-> raw.low, high |-> raw.low + MaxRangeSize]
      ELSE raw

\* pointer positions, as the tick clamp(Math.round((1 - ratio) * TICKS), 0, TICKS)
DragTicks == {0, 500, TICKS}

handleMove(tick) ==
  /\ drag # NoDrag
  /\ range' = handleRangeChange(MoveTarget(drag, tick), drag.mode)
  /\ UNCHANGED <<history, balance, baseBet, currentBet, rangeMode, status, lastResult,
                 userBets, sessionPnL, payError, payoutError,
                 seedVars, modalVars, drag, envVars, logVars>>
  /\ UNCHANGED randomVars

handleEnd ==
  /\ drag # NoDrag
  /\ drag' = NoDrag
  /\ UNCHANGED <<appVars, seedVars, modalVars, envVars, logVars>>
  /\ UNCHANGED randomVars

toggleMode(mode) ==
  /\ mode # rangeMode
  /\ rangeMode' = mode
  /\ range' = IF mode = "over"
              THEN [low |-> clamp(range.high, TICKS - MaxRangeSize, TICKS - MinRangeSize),
                    high |-> TICKS]
              ELSE [low |-> 0,
                    high |-> Max(Min(range.low, MaxRangeSize), MinRangeSize)]
  /\ UNCHANGED <<history, balance, baseBet, currentBet, status, lastResult,
                 userBets, sessionPnL, payError, payoutError,
                 seedVars, modalVars, drag, envVars, logVars>>
  /\ UNCHANGED randomVars

\* calcPayout of handlePayoutChange: the values it can take for size s
calcPayoutSet(s, activeBet) ==
  IF s <= 0 THEN {Zero} ELSE MulRound6Set(activeBet, MultiplierOfSize(s))

\* Math.round(800 / (targetPayout / activeBet)).  RoundSearch finds the
\* largest s with (2s - 1) * targetPayout <= 1600 * activeBet, which is the
\* exact quotient rounded half up.  Every value above 751 has the same effect
\* on handlePayoutChange (no candidate is legal, the result is clamped to
\* 750), so the search stops at MaxSolverSize.
RECURSIVE RoundSearch(_, _, _, _)
RoundSearch(lo, hi, target, activeBet) ==
  IF lo = hi THEN lo
  ELSE LET mid == (lo + hi + 1) \div 2 IN
       IF Le(Scale(target, 2 * mid - 1), Scale(activeBet, 2 * EdgeMilli))
       THEN RoundSearch(mid, hi, target, activeBet)
       ELSE RoundSearch(lo, mid - 1, target, activeBet)

\* On an exact tie (800 * activeBet / targetPayout = s - 1/2) the two double
\* divisions may leave the quotient on either side of it.
RoundedSizeSet(target, activeBet) ==
  LET s == RoundSearch(0, MaxSolverSize, target, activeBet)
  IN  IF s > 0 /\ Scale(target, 2 * s - 1) = Scale(activeBet, 2 * EdgeMilli)
      THEN {s - 1, s} ELSE {s}

LegalSize(s) == ~ (s < MinRangeSize \/ s > MaxRangeSize)

DiffSet(s, target, activeBet) ==
  { AbsDiff(p, target) : p \in calcPayoutSet(s, activeBet) }

\* One step of candidates.forEach: the sizes bestSize can hold after
\* candidate s is examined while it held b.  Two differences that are equal
\* as decimals are computed from doubles and may compare either way.
Examine(s, b, target, activeBet) ==
  IF ~ LegalSize(s) THEN {b}
  ELSE LET ds == DiffSet(s, target, activeBet)
           db == DiffSet(b, target, activeBet)
       IN  (IF \E d1 \in ds, d2 \in db : Le(d1, d2) THEN {s} ELSE {})
           \cup (IF \E d1 \in ds, d2 \in db : Le(d2, d1) THEN {b} ELSE {})

\* SolvedSizeSet with Math.floor for Math.round and no neighbour search
SolvedSizeSet_Floor(target, activeBet) ==
  { CHOOSE s \in 0..MaxSolverSize :
      /\ s = 0 \/ Le(Scale(target, s), Scale(activeBet, EdgeMilli))
      /\ s = MaxSolverSize \/ ~ Le(Scale(target, s + 1), Scale(activeBet, EdgeMilli)) }

\* The sizes handlePayoutChange can settle on before the clamp: candidates
\* [newSize, newSize - 1, newSize + 1] examined in that order (examining
\* newSize against itself changes nothing).
SolvedSizeSet(target, activeBet) ==
  UNION { UNION { Examine(newSize + 1, b, target, activeBet)
                  : b \in Examine(newSize - 1, newSize, target, activeBet) }
          : newSize \in RoundedSizeSet(target, activeBet) }

\* parseFloat of what is typed in the payout field (Zero: not a positive number)
PayoutInputs == {Zero, Amount(1), Amount(40), Amount(100000)}

handlePayoutChange(val) ==
  /\ ActiveBet.u < MaxPayoutStakeUnits
  /\ IF Le(val, Zero) THEN
       /\ payoutError' = "Enter valid payout"
       /\ UNCHANGED range
     ELSE IF Le(ActiveBet, Zero) THEN
       UNCHANGED <<range, payoutError>>
     ELSE
       \E best \in SolvedSizeSet(val, ActiveBet) :
       LET newSize == IF best < MinRangeSize THEN MinRangeSize
                      ELSE IF best > MaxRangeSize THEN MaxRangeSize ELSE best
           newLow == IF rangeMode = "over" THEN TICKS - newSize ELSE 0
           newHigh == IF rangeMode = "over" THEN TICKS ELSE newSize
       IN
       /\ payoutError' = IF best < MinRangeSize THEN "Max Payout Limit (80x)"
                         ELSE IF best > MaxRangeSize THEN "Min Payout Limit (Max 75% range)"
                         ELSE NoError
       /\ range' = [low |-> Max(newLow, 0), high |-> Min(newHigh, TICKS)]
  /\ UNCHANGED <<history, balance, baseBet, currentBet, rangeMode, status, lastResult,
                 userBets, sessionPnL, payError,
                 seedVars, modalVars, drag, envVars, logVars>>
  /\ UNCHANGED randomVars

\* ------------------------------------------------------------------------
\* Verification form (ProvablyFairModal)
\* ------------------------------------------------------------------------
setVNonce(k) ==
  /\ vNonce # k
  /\ vNonce' = k
  /\ UNCHANGED <<appVars, seedVars, vServerSeed, vClientSeed, vResult, vQuery,
                 drag, envVars, logVars>>
  /\ UNCHANGED randomVars

handleVerify ==
  /\ ~ (vServerSeed = "" \/ vClientSeed = "" \/ vNonce = NoNonce)
  /\ \E draw \in HashPrefixes :
       LET query == HmacQuery(vServerSeed, vClientSeed, vNonce) IN
       /\ vResult' = generateResult(vServerSeed, vClientSeed, vNonce, draw)
       /\ hmacTable' = (query :> HmacBytes(query, draw)) @@ hmacTable
       /\ vQuery' = query
  /\ UNCHANGED <<appVars, seedVars, vServerSeed, vClientSeed, vNonce, drag,
                 initPending, rotatePending, timers, seedsDrawn, requested, logVars>>
  /\ UNCHANGED randomVars

\* ------------------------------------------------------------------------
\* The pure-random revision: bets, predictions and cashout
\* ------------------------------------------------------------------------
\* x / 100 rounded to an integer as toFixed does.  On an exact tie the
\* double that is rounded may lie on either side of it.
RoundHundredthSet(x) ==
  LET q == x \div 100
      r == x % 100
  IN  IF r = 50 THEN {q, q + 1} ELSE IF r > 50 THEN {q + 1} ELSE {q}

\* Number(((1 + n * 0.35) * 0.85).toFixed(2)), in hundredths
EdgedMultSet(n) == RoundHundredthSet((100 + StreakStep * n) * EdgeFactor)

\* Number((stake * edgedMult).toFixed(2)), in cents
PayoutSet(stake, edgedMult) == RoundHundredthSet(stake * edgedMult)

\* randomPrice(): a tick outside and a tick inside the initial band
PrPrices == {1, 500}

\* values of the bet field, in dollars (empty field: 0)
PrBetInputs == {0, 40, 20000}

setBetAmount(v) ==
  /\ betAmount' = clamp(v, MinBet, MaxBet) * Cents
  /\ UNCHANGED <<prBalance, sessionStake, prStatus, streak, nextPrice, payout, rounds,
                 runStake, predictions>>
  /\ UNCHANGED <<appVars, seedVars, modalVars, drag, envVars, logVars>>

\* onPredict with takeTick() drawing `price`.  The handler reads streak and
\* sessionStake of the render it belongs to; its setters are committed
\* together, the last call for a cell deciding its value.
onPredict(price) ==
  /\ predictions < MaxPredictions
  /\ IF betAmount <= 0 THEN UNCHANGED randomVars
     ELSE IF streak = 0 /\ betAmount > prBalance THEN UNCHANGED randomVars
     ELSE
       LET opening == streak = 0
           win == price >= PrLow /\ price <= PrHigh
       IN
       /\ prBalance' = IF opening THEN prBalance - betAmount ELSE prBalance
       /\ runStake' = IF opening THEN betAmount ELSE runStake
       /\ nextPrice' = price
       /\ predictions' = predictions + 1
       /\ UNCHANGED betAmount
       /\ IF win THEN
            \E edgedMult \in EdgedMultSet(streak + 1) :
            \E p \in PayoutSet(sessionStake, edgedMult) :
              /\ streak' = streak + 1
              /\ payout' = p
              /\ prStatus' = "playing"
              /\ sessionStake' = IF opening THEN betAmount ELSE sessionStake
              /\ rounds' = <<[price |-> price, result |-> "win",
                              multiplier |-> edgedMult]>> \o rounds
          ELSE
            /\ prStatus' = "lost"
            /\ streak' = 0
            /\ payout' = 0
            /\ sessionStake' = 0
            /\ rounds' = <<[price |-> price, result |-> "lose", multiplier |-> 0]>> \o rounds
  /\ UNCHANGED <<appVars, seedVars, modalVars, drag, envVars, logVars>>

onCashout ==
  /\ prStatus = "playing" /\ streak > 0
  /\ prBalance' = prBalance + payout
  /\ prStatus' = "cashed"
  /\ streak' = 0
  /\ sessionStake' = 0
  /\ payout' = 0
  /\ UNCHANGED <<betAmount, nextPrice, rounds, runStake, predictions>>
  /\ UNCHANGED <<appVars, seedVars, modalVars, drag, envVars, logVars>>

onReset ==
  /\ nextPrice' = NoTick
  /\ prStatus' = "idle"
  /\ streak' = 0
  /\ payout' = 0
  /\ sessionStake' = 0
  /\ rounds' = << >>
  /\ UNCHANGED <<betAmount, prBalance, runStake, predictions>>
  /\ UNCHANGED <<appVars, seedVars, modalVars, drag, envVars, logVars>>

\* ------------------------------------------------------------------------
\* Specifications
\* ------------------------------------------------------------------------
Next ==
  \/ InitDone
  \/ RotateSeedStart
  \/ \E newS \in rotatePending : RotateSeedDone(newS)
  \/ \E c \in ClientSeeds : SetClientSeed(c)
  \/ playRound
  \/ finalizeRound
  \/ finalizeRoundRejected
  \/ handleCashout
  \/ handleHalfBet
  \/ handleDoubleBet
  \/ \E val \in BetInputs : betInputChange(val)
  \/ \E type \in {"low", "high"} : startDrag(type)
  \/ \E tick \in DragTicks : handleMove(tick)
  \/ handleEnd
  \/ \E mode \in {"over", "under"} : toggleMode(mode)
  \/ \E val \in PayoutInputs : handlePayoutChange(val)
  \/ \E k \in 0..MaxRounds : setVNonce(k)
  \/ handleVerify

Spec == Init /\ [][Next]_vars

\* Seed lifecycle, rounds and verification; stake and range stay as mounted
SeedNext ==
  \/ InitDone
  \/ RotateSeedStart /\ seedsDrawn < MaxCommitSeeds
  \/ \E newS \in rotatePending : RotateSeedDone(newS)
  \/ \E c \in ClientSeeds : SetClientSeed(c)
  \/ playRound /\ Len(started) < MaxSeedRounds
  \/ finalizeRound
  \/ finalizeRoundRejected
  \/ \E k \in 0..MaxSeedRounds : setVNonce(k)
  \/ handleVerify

SeedSpec == Init /\ [][SeedNext]_vars

\* Rounds, cashout and stake edits, with a mode toggle to vary the multiplier
LedgerNext ==
  \/ InitDone
  \/ playRound
  \/ finalizeRound
  \/ finalizeRoundRejected
  \/ handleCashout
  \/ handleHalfBet /\ betEdits < MaxQuickEdits
  \/ handleDoubleBet /\ betEdits < MaxQuickEdits
  \/ \E val \in BetInputs : betInputChange(val) /\ betEdits < MaxQuickEdits
  \/ \E mode \in {"over", "under"} : toggleMode(mode)

LedgerSpec == Init /\ [][LedgerNext]_vars

\* Range selection, with the stake edits that change the amount the payout
\* field is solved against
RangeNext ==
  \/ handleHalfBet /\ betEdits < MaxQuickEdits
  \/ handleDoubleBet /\ betEdits < MaxQuickEdits
  \/ \E val \in BetInputs : betInputChange(val) /\ betEdits < MaxQuickEdits
  \/ \E type \in {"low", "high"} : startDrag(type)
  \/ \E tick \in DragTicks : handleMove(tick)
  \/ handleEnd
  \/ \E mode \in {"over", "under"} : toggleMode(mode)
  \/ \E val \in PayoutInputs : handlePayoutChange(val)

RangeSpec == Init /\ [][RangeNext]_vars

\* Rounds whose digests range over ProbePrefixes
TickNext ==
  \/ InitDone
  \/ playRound /\ Len(started) < MaxTickRounds
  \/ finalizeRoundWith(ProbePrefixes)
  \/ handleCashout

TickSpec == Init /\ [][TickNext]_vars

\* the payout typed while a round is watched
SnapshotPayouts == {Amount(40)}

\* Rounds with every range control usable at any time, also while a round
\* is in flight
SnapshotNext ==
  \/ InitDone
  \/ playRound /\ Len(started) < MaxSnapshotRounds
  \/ finalizeRound
  \/ \E type \in {"low", "high"} : startDrag(type)
  \/ \E tick \in DragTicks : handleMove(tick)
  \/ handleEnd
  \/ \E mode \in {"over", "under"} : toggleMode(mode)
  \/ \E val \in SnapshotPayouts : handlePayoutChange(val)

SnapshotSpec == Init /\ [][SnapshotNext]_vars

\* Rounds with the stakes typed that bring the wallet down to 40 and then
\* set the stake to 30
ScenarioInputs == {9960, 30}

ScenarioNext ==
  \/ InitDone
  \/ \E val \in ScenarioInputs : betInputChange(val)
  \/ playRound
  \/ finalizeRound
  \/ finalizeRoundRejected
  \/ handleCashout

ScenarioSpec == Init /\ [][ScenarioNext]_vars

\* Stakes the stake field and the 1/2 button can leave in baseBet: typed
\* integers, 25 halved once and six times, 1 halved twenty times
PayoutStakes ==
  {Amount(1), Amount(InitialBaseBet), Amount(9960),
   [u |-> 12, f |-> 500000], [u |-> 0, f |-> 390625], OneMicro}

\* The band of a given size pinned as rangeMode requires
BandOfSize(mode, size) ==
  IF mode = "over" THEN [low |-> TICKS - size, high |-> TICKS]
  ELSE [low |-> 0, high |-> size]

\* potentialPayout (useMemo): the values the payout field can display
potentialPayoutSet == MulRound6Set(ActiveBet, multiplier(range))

\* Idle states before the first round in which a stake of PayoutStakes and a
\* band of every legal size have been selected and the payout field has
\* just been emptied (handlePayoutChange("") sets "Enter valid payout")
PayoutInit ==
  /\ \E p \in InitialPrices : history = [i \in 1..MAX_HISTORY |-> p]
  /\ balance = Amount(InitialBalance)
  /\ baseBet \in PayoutStakes
  /\ currentBet = Amount(InitialBaseBet)
  /\ rangeMode \in {"over", "under"}
  /\ \E size \in MinRangeSize..MaxRangeSize : range = BandOfSize(rangeMode, size)
  /\ status = "idle"
  /\ lastResult = NoResult
  /\ clientSeed = DefaultClientSeed
  /\ serverSeed = EmptySeed
  /\ serverSeedHash = ""
  /\ nonce = 0
  /\ prevServerSeed = NullSeed
  /\ prevClientSeed = NullSeed
  /\ prevNonceMax = 0
  /\ userBets = << >>
  /\ sessionPnL = Zero
  /\ payError = NoError
  /\ payoutError = "Enter valid payout"
  /\ vServerSeed = ""
  /\ vClientSeed = ""
  /\ vNonce = NoNonce
  /\ vResult = NoTick
  /\ drag = NoDrag
  /\ initPending = TRUE
  /\ rotatePending = {}
  /\ timers = {}
  /\ hmacTable = << >>
  /\ seedsDrawn = 1
  /\ requested = {}
  /\ RandomInit
  /\ resolved = << >>
  /\ started = << >>
  /\ debited = Zero
  /\ credited = Zero
  /\ betEdits = 0
  /\ vQuery = NoQuery

\* The payout field is given the payout it displays (the forward payout of
\* the stake and the selected band), or is emptied again
PayoutNext ==
  \/ \E val \in potentialPayoutSet \cup {Zero} : handlePayoutChange(val)
  \/ handleHalfBet
  \/ \E mode \in {"over", "under"} : toggleMode(mode)

PayoutSpec == PayoutInit /\ [][PayoutNext]_vars

\* Seed rotations that may overlap (rotateSeed has no guard against being
\* called again before its `await` returns), with client seed edits and a
\* round between them
RotateNext ==
  \/ InitDone
  \/ RotateSeedStart
  \/ \E newS \in rotatePending : RotateSeedDone(newS)
  \/ \E c \in ClientSeeds : SetClientSeed(c)
  \/ playRound /\ Len(started) < MaxRotateRounds
  \/ finalizeRound
  \/ finalizeRoundRejected

RotateSpec == Init /\ [][RotateNext]_vars

\* Rounds under the scheduling the host guarantees: a due timer's callback
\* runs and its HMAC promise settles (finalizeRound continues or is
\* rejected), and init's digest resolves
LiveNext ==
  \/ InitDone
  \/ playRound
  \/ finalizeRound
  \/ finalizeRoundRejected
  \/ handleCashout
  \/ \E mode \in {"over", "under"} : toggleMode(mode)

LiveSpec ==
  /\ Init
  /\ [][LiveNext]_vars
  /\ WF_vars(InitDone)
  /\ WF_vars(finalizeRound)
  /\ WF_vars(finalizeRoundRejected)

\* The pure-random revision
RandomNext ==
  \/ \E v \in PrBetInputs : setBetAmount(v)
  \/ \E price \in PrPrices : onPredict(price)
  \/ onCashout
  \/ onReset

RandomSpec == Init /\ [][RandomNext]_vars

\* ------------------------------------------------------------------------
\* Properties
\* ------------------------------------------------------------------------
Revealed == prevServerSeed # NullSeed /\ prevServerSeed # EmptySeed

\* C1: every round resolved with server seed S and nonce k re-verifies from
\* the revealed slot: generateResult(prevServerSeed, prevClientSeed, k), as
\* computed by handleVerify, is the tick that round appended to history.
C1_RevealedRoundsVerify ==
  (vResult # NoTick /\ Revealed
   /\ vQuery[1] = prevServerSeed /\ vQuery[2] = prevClientSeed)
  => \A i \in DOMAIN resolved :
       (resolved[i].serverSeed = vQuery[1] /\ resolved[i].nonce = vQuery[3])
       => resolved[i].tick = vResult

\* C2 (as claimed): in every reachable state, from the initial mount on, the
\* published serverSeedHash is SHA256 of the active serverSeed.
C2_HashAlways == serverSeedHash = sha256(serverSeed)

\* C2 (amended): once a server seed has been set (init has completed), the
\* published serverSeedHash is SHA256 of the active serverSeed.
C2_HashOfActiveSeed == serverSeed # EmptySeed => serverSeedHash = sha256(serverSeed)

C2_Witness ==
  /\ seedsDrawn = 2 /\ rotatePending = {} /\ ~ initPending
  /\ serverSeed = ServerSeedHex(2)
  /\ prevServerSeed = ServerSeedHex(1)
  /\ serverSeedHash = sha256(ServerSeedHex(2))

\* C3: no round is started, and no tick is drawn, with the empty initial
\* serverSeed (before init has set serverSeed and serverSeedHash).
C3_NoRoundBeforeCommitment ==
  /\ \A i \in DOMAIN started : started[i].serverSeed # EmptySeed
  /\ \A i \in DOMAIN resolved : resolved[i].serverSeed # EmptySeed

\* C4: for every server seed, the nonces of the rounds resolved with it are,
\* in resolution order, 0, 1, ..., N-1.
C4_NoncesConsecutive ==
  \A i \in DOMAIN resolved :
    resolved[i].nonce =
      Cardinality({ j \in 1..(i - 1) : resolved[j].serverSeed = resolved[i].serverSeed })

\* C5: whenever a revealed prevServerSeed exists, the active serverSeed
\* differs from it.
C5_RevealedNeverActive == Revealed => serverSeed # prevServerSeed

\* floor(v * 1001 / 2^32) for the unsigned 32-bit v of 4 bytes holds of t:
\* t * 2^32 <= v * 1001 < (t + 1) * 2^32, compared on 16-bit halves of v
IsFloorOfScaled(bytes, t) ==
  LET hi == bytes[1] * TwoPow8 + bytes[2]
      lo == bytes[3] * TwoPow8 + bytes[4]
      \* v * 1001 = top * 2^16 + rest with 0 <= rest < 2^16
      top == hi * TickSpan + ((lo * TickSpan) \div (TwoPow8 * TwoPow8))
  IN  t * (TwoPow8 * TwoPow8) <= top /\ top < (t + 1) * (TwoPow8 * TwoPow8)

\* C6: the tick of every resolved round is floor(v * 1001 / 2^32) of its
\* digest prefix v and lies in [0, 1000], and every entry of history lies
\* in [0, 1000], the last one being the latest tick.
C6_TickFormula ==
  /\ \A i \in DOMAIN resolved :
       /\ resolved[i].tick \in 0..TICKS
       /\ IsFloorOfScaled(resolved[i].bytes, resolved[i].tick)
  /\ \A i \in DOMAIN history : history[i] \in 0..TICKS
  /\ resolved # << >> => history[MAX_HISTORY] = resolved[Len(resolved)].tick

C6_Witness ==
  \E i \in DOMAIN resolved :
    /\ resolved[i].bytes = <<255, 255, 255, 255>>
    /\ resolved[i].tick = TICKS
    /\ history[MAX_HISTORY] = TICKS

\* C8: balance = 10000 - (stakes debited by playRound from idle)
\*                     + (currentBet amounts credited by handleCashout);
\* the sums change in no other step, so no other step changes balance.
C8_Ledger == balance = Add(Sub(Amount(InitialBalance), debited), credited)

C8_Witness ==
  /\ credited # Zero
  /\ \E i \in DOMAIN started : started[i].status = "won_streak"
  /\ \E i \in DOMAIN resolved : ~ resolved[i].won
  /\ status = "idle"

\* C9: balance is never negative.
C9_BalanceNonNegative == ~ Lt(balance, Zero)

C9_Witness == balance = Zero /\ status = "won_streak" /\ Len(started) >= 2

\* Number of tick values finalizeRound counts as a win for a range
WinningTicks(rg) == Cardinality({ t \in 0..TICKS : Won(t, rg) })

\* C10: for the selected range, multiplier * (winning ticks) / 1001 < 1
\* (multiplier in millionths).
C10_HouseEdge == multiplier(range) * WinningTicks(range) < TickSpan * Micro

\* C11: the i-th resolved round is decided against the range that was
\* selected when its playRound ran, and a win pays the stake of that
\* playRound times the multiplier of that range, whatever the range is at
\* settlement.
C11_RangeSnapshot ==
  /\ \A i \in DOMAIN resolved :
       /\ resolved[i].range = started[i].range
       /\ resolved[i].won = (resolved[i].tick >= started[i].range.low
                             /\ resolved[i].tick <= started[i].range.high)
  /\ status = "won_streak" =>
       /\ Len(resolved) = Len(started)
       /\ currentBet \in MulRound6Set(started[Len(started)].betAmount,
                                       multiplier(started[Len(started)].range))

\* a round just settled as won although the range selected at settlement,
\* changed while the round was in flight, does not contain the tick
C11_Witness ==
  /\ status = "won_streak"
  /\ Len(resolved) = Len(started)
  /\ range # started[Len(started)].range
  /\ resolved[Len(resolved)].won
  /\ ~ (resolved[Len(resolved)].tick >= range.low /\ resolved[Len(resolved)].tick <= range.high)
  /\ multiplier(range) # multiplier(started[Len(started)].range)

\* C12: rounds are sequential.  At most one finalizeRound is pending, one
\* is pending only while status is playing, and the rounds started exceed
\* the rounds resolved by one exactly while status is playing (by none
\* otherwise): no playRound runs before the previous round was finalized.
C12_RoundsSequential ==
  /\ Cardinality(timers) <= 1
  /\ timers # {} => status = "playing"
  /\ Len(resolved) <= Len(started)
  /\ Len(started) <= Len(resolved) + 1
  /\ (Len(started) = Len(resolved) + 1) <=> (status = "playing")

C12_Witness ==
  /\ Len(started) >= 2
  /\ Len(resolved) = Len(started) - 1
  /\ Cardinality(timers) = 1
  /\ status = "playing"

C14_StatusTransitions ==
  /\ status \in {"idle", "playing", "won_streak"}
  /\ [][ /\ status' \in {"idle", "playing", "won_streak"}
         /\ status' # status =>
              \/ /\ status = "idle" /\ status' = "playing"
                 /\ Len(started') = Len(started) + 1
                 /\ started'[Len(started')].status = "idle"
                 /\ UNCHANGED <<resolved, credited>>
              \/ /\ status = "playing" /\ status' = "won_streak"
                 /\ Len(resolved') = Len(resolved) + 1
                 /\ resolved'[Len(resolved')].won
                 /\ UNCHANGED <<started, credited>>
              \/ /\ status = "playing" /\ status' = "idle"
                 /\ Len(resolved') = Len(resolved) + 1
                 /\ ~ resolved'[Len(resolved')].won
                 /\ UNCHANGED <<started, credited>>
              \/ /\ status = "won_streak" /\ status' = "playing"
                 /\ Len(started') = Len(started) + 1
                 /\ started'[Len(started')].status = "won_streak"
                 /\ UNCHANGED <<resolved, credited>>
              \/ /\ status = "won_streak" /\ status' = "idle"
                 /\ credited' = Add(credited, currentBet)
                 /\ UNCHANGED <<started, resolved>>
     ]_vars

\* all five transitions have been taken: a round from idle, a compound, a
\* win, a cashout and a loss
C14_Witness ==
  /\ \E i \in DOMAIN started : started[i].status = "idle"
  /\ \E i \in DOMAIN started : started[i].status = "won_streak"
  /\ \E i \in DOMAIN resolved : resolved[i].won
  /\ \E i \in DOMAIN userBets : userBets[i].result = "win"
  /\ \E i \in DOMAIN userBets : userBets[i].result = "loss"
  /\ Len(resolved) = Len(started)

\* The two early returns of playRound (stake not positive, stake above the
\* balance) are never taken: while idle the stake never exceeds the balance,
\* the button is disabled while idle with a stake that is not positive, and
\* payError is never set.
StakeAffordable ==
  /\ status = "idle" => Le(baseBet, balance)
  /\ (status = "idle" /\ Le(baseBet, Zero)) => ~ PlayEnabled
  /\ status = "won_streak" => Lt(Zero, currentBet)
  /\ payError = NoError

\* C16: a step in which finalizeRound draws a winning tick sets currentBet
\* to the stake at risk (baseBet if the round was started from idle, the
\* currentBet held so far if it was a compound) times the multiplier of the
\* range selected when the round was started, rounded to 6 decimals, and
\* status to won_streak; balance and baseBet keep their values.
C16_WinCompounds ==
  [][ (Len(resolved') = Len(resolved) + 1 /\ resolved'[Len(resolved')].won) =>
        LET r == started[Len(started)]
            stake == IF r.status = "idle" THEN baseBet ELSE currentBet
        IN  /\ currentBet' \in MulRound6Set(stake, multiplier(r.range))
            /\ status' = "won_streak"
            /\ balance' = balance
            /\ baseBet' = baseBet
    ]_vars

\* a compound has just been won, and the range was changed while it was in
\* flight
C16_Witness ==
  /\ status = "won_streak"
  /\ Len(resolved) = Len(started)
  /\ started[Len(started)].status = "won_streak"
  /\ resolved[Len(resolved)].won
  /\ range # started[Len(started)].range
  /\ currentBet # baseBet
  /\ currentBet # started[Len(started)].betAmount

\* Every round started from idle has an entry in userBets, but for the
\* streak that is still open
StreaksEnded ==
  Cardinality({ i \in DOMAIN started : started[i].status = "idle" })
    = Len(userBets) + (IF status = "idle" THEN 0 ELSE 1)

\* C17: a step that credits winnings (it appends a win entry to userBets
\* or changes the credited sum) is taken from won_streak only, adds exactly
\* currentBet to balance, and leaves status idle and currentBet = baseBet.
\* Every streak started from idle is ended once, by its loss or by its
\* cashout: the entries of userBets, plus the streak still open, are as
\* many as the rounds started from idle.
C17_CashoutOnce ==
  /\ [][ (credited' # credited
          \/ (Len(userBets') > Len(userBets)
              /\ userBets'[Len(userBets')].result = "win")) =>
           /\ status = "won_streak"
           /\ balance' = Add(balance, currentBet)
           /\ credited' = Add(credited, currentBet)
           /\ status' = "idle"
           /\ currentBet' = baseBet
           /\ Len(userBets') = Len(userBets) + 1
           /\ userBets'[Len(userBets')].result = "win"
           /\ userBets'[Len(userBets')].payout = currentBet
       ]_vars
  /\ StreaksEnded
  /\ [][StreaksEnded']_vars

\* a streak of two wins has been cashed out
C17_Witness ==
  /\ status = "idle"
  /\ userBets # << >>
  /\ userBets[Len(userBets)].result = "win"
  /\ credited = userBets[Len(userBets)].payout
  /\ Lt(Amount(InitialBalance), balance)
  /\ Len(resolved) = 2

\* Round i was started from idle with balance 40 and stake 30
ScenarioRound(i) ==
  /\ started[i].status = "idle"
  /\ started[i].balance = Amount(40)
  /\ started[i].betAmount = Amount(30)

\* C18: starting idle with balance 40 and baseBet 30, the first playRound
\* leaves balance 10; once that round is lost, and until another round is
\* started, balance is 10 and the stake is the 30 it was, so that playRound
\* meets its insufficient-funds test (balance < stake) and fails.
C18_ScenarioD ==
  \A i \in DOMAIN started :
    (ScenarioRound(i) /\ Len(started) = i) =>
      /\ status = "playing" => balance = Amount(10)
      /\ (i \in DOMAIN resolved /\ ~ resolved[i].won) =>
           /\ status = "idle"
           /\ balance = Amount(10)
           /\ baseBet = Amount(30)
           /\ Lt(balance, ActiveBet)

\* The round that opened the current streak: the last one started from idle
StreakStart ==
  CHOOSE i \in DOMAIN started :
    /\ started[i].status = "idle"
    /\ \A j \in DOMAIN started : j > i => started[j].status # "idle"

\* C19: a step in which finalizeRound draws a losing tick appends to
\* userBets one loss entry whose amount is the stake debited when the
\* streak was started from idle, at any streak depth, and whose payout is 0.
C19_LossLogsBaseBet ==
  [][ (Len(resolved') = Len(resolved) + 1 /\ ~ resolved'[Len(resolved')].won) =>
        /\ Len(userBets') = Len(userBets) + 1
        /\ userBets'[Len(userBets')].result = "loss"
        /\ userBets'[Len(userBets')].amount = started[StreakStart].betAmount
        /\ userBets'[Len(userBets')].payout = Zero
    ]_vars

\* a compound has just been lost: the amount logged is the stake of the
\* streak, not the amount that was at risk
C19_Witness ==
  /\ status = "idle"
  /\ started # << >>
  /\ userBets # << >>
  /\ Len(resolved) = Len(started)
  /\ started[Len(started)].status = "won_streak"
  /\ ~ resolved[Len(resolved)].won
  /\ userBets[Len(userBets)].result = "loss"
  /\ userBets[Len(userBets)].amount = started[StreakStart].betAmount
  /\ userBets[Len(userBets)].amount # started[Len(started)].betAmount

\* userBets holds one loss entry per lost round
LossesAndCashouts ==
  Len(userBets) = Cardinality({ i \in DOMAIN resolved : ~ resolved[i].won })
                  + Cardinality({ i \in DOMAIN userBets : userBets[i].result = "win" })

\* C20: userBets gains exactly one entry in a step in which finalizeRound
\* draws a losing tick and in a step in which handleCashout ends a streak
\* (won_streak to idle), keeping the entries it had; every other step, a
\* winning finalizeRound included, leaves it unchanged.  Its length is the
\* number of lost rounds plus the number of cashouts (its win entries).
C20_UserBetsFrame ==
  /\ [][ LET lossStep == /\ Len(resolved') = Len(resolved) + 1
                         /\ ~ resolved'[Len(resolved')].won
             cashoutStep == status = "won_streak" /\ status' = "idle"
         IN  IF lossStep \/ cashoutStep
             THEN /\ Len(userBets') = Len(userBets) + 1
                  /\ SubSeq(userBets', 1, Len(userBets)) = userBets
                  /\ userBets'[Len(userBets')].result = (IF lossStep THEN "loss" ELSE "win")
             ELSE userBets' = userBets
       ]_vars
  /\ LossesAndCashouts
  /\ [][LossesAndCashouts']_vars

\* two wins in a streak, a cashout and a loss: two entries for three
\* resolved rounds
C20_Witness ==
  /\ Len(resolved) = 3
  /\ Cardinality({ i \in DOMAIN resolved : resolved[i].won }) = 2
  /\ Len(userBets) = 2
  /\ credited # Zero

\* C21: in every reachable state the range satisfies 0 <= low < high <= 1000
\* and 1 <= high - low <= 750, whatever drags, mode toggles and payout
\* edits have been applied.
C21_RangeBounds ==
  /\ 0 <= range.low
  /\ range.low < range.high
  /\ range.high <= TICKS
  /\ 1 <= range.high - range.low
  /\ range.high - range.low <= MaxRangeSize

\* a drag in progress has widened the band to the 750 limit after a toggle
C21_Witness ==
  /\ drag # NoDrag
  /\ rangeMode = "under"
  /\ range.high - range.low = MaxRangeSize
  /\ payoutError # NoError

\* C22: in every reachable state rangeMode = over implies range.high = 1000
\* and rangeMode = under implies range.low = 0, for any interleaving of
\* drag events, mode toggles and payout edits.
C22_PinnedToMode ==
  /\ rangeMode = "over" => range.high = TICKS
  /\ rangeMode = "under" => range.low = 0

\* the payouts a band realizes all lie within 0.000001 of target
WithinOneUnit(target, rg, activeBet) ==
  \A realized \in MulRound6Set(activeBet, multiplier(rg)) :
    Le(AbsDiff(realized, target), OneMicro)

\* C23: for every legal band width and every positive stake, a step of
\* handlePayoutChange on the forward payout of that stake and width sets a
\* band whose realized payout is within one rounding unit (0.000001) of
\* that payout.
C23_PayoutRoundTrip ==
  [][\A val \in potentialPayoutSet :
       handlePayoutChange(val) => WithinOneUnit(val, range', ActiveBet)]_vars

\* the emptied payout field has been given the payout of a fractional stake
\* on a band of width 333, and the solver has accepted it
C23_Witness ==
  /\ payoutError = NoError
  /\ baseBet = [u |-> 0, f |-> 390625]
  /\ range.high - range.low = 333

\* C24: a change of the client seed by onChangeClientSeed (any change of
\* clientSeed other than the one made by init's continuation) leaves nonce,
\* serverSeed, serverSeedHash, the revealed slot, history, userBets, balance
\* and status unchanged, and alters no tick already recorded.
C24_ClientSeedFrame ==
  [][(clientSeed' # clientSeed /\ initPending' = initPending)
     => UNCHANGED <<nonce, serverSeed, serverSeedHash, prevServerSeed, prevClientSeed,
                    prevNonceMax, history, userBets, balance, status, resolved>>]_vars

\* the client seed was changed after a round had been resolved with another one
C24_Witness ==
  /\ resolved # << >>
  /\ ~ initPending
  /\ nonce > 0
  /\ \A i \in 1..Len(resolved) : resolved[i].clientSeed # clientSeed
  /\ resolved[Len(resolved)].serverSeed = serverSeed

\* server seeds that have been active or revealed so far
SeedsSeen ==
  {serverSeed, prevServerSeed} \cup {started[i].serverSeed : i \in 1..Len(started)}

\* C25: when a rotateSeed call completes, the revealed slot holds the active
\* (serverSeed, clientSeed, nonce) as they were when that call was made, the
\* active serverSeed is a seed that was never active or revealed before,
\* nonce is 0 (so a rotation with no round played reveals prevNonceMax = 0),
\* and balance, status, bets and range are unchanged.
C25_RotationCompletes ==
  [][\A r \in requested :
       (r \notin requested')
       => /\ prevServerSeed' = r.serverSeed
          /\ prevClientSeed' = r.clientSeed
          /\ prevNonceMax' = r.nonce
          /\ serverSeed' = r.seed
          /\ serverSeed' \notin SeedsSeen
          /\ nonce' = 0
          /\ UNCHANGED <<balance, status, baseBet, currentBet, userBets, range>>]_vars

\* C26: every round eventually resolves: whenever status is playing, status
\* eventually becomes idle or won_streak, given that the 600 ms timer fires
\* and the HMAC promise settles.
C26_RoundsResolve ==
  (status = "playing") ~> (status \in {"idle", "won_streak"})

\* a round placed with a committed server seed in its closure resolves
CommittedRoundsResolve ==
  (status = "playing" /\ timers # {} /\ \A c \in timers : c.serverSeed # EmptySeed)
    ~> (status \in {"idle", "won_streak"})

\* C27: in the pure-random revision, whenever onCashout credits a streak of
\* n >= 1 correct predictions (the first win of a run included), the amount
\* added to balance is the stake deducted at the start of the run times the
\* edged streak multiplier round2((1 + 0.35 * n) * 0.85).
C27_CashoutPaysRunStake ==
  [][(prStatus = "playing" /\ prStatus' = "cashed")
     => \E edgedMult \in EdgedMultSet(streak) :
          prBalance' - prBalance \in PayoutSet(runStake, edgedMult)]_vars

\* from the second win of a run on, the payout is that of the run's stake
PayoutAfterSecondWin ==
  (prStatus = "playing" /\ streak >= 2)
    => \E edgedMult \in EdgedMultSet(streak) : payout \in PayoutSet(runStake, edgedMult)

\* after the first win of a run the payout is 0
PayoutAfterFirstWin == (prStatus = "playing" /\ streak = 1) => payout = 0

\* C28: in every reachable state the selected band is at least 10 ticks
\* wide (so the multiplier is at most 80x), whatever range drags, mode
\* toggles and payout edits have been applied.
C28_MinimumWidth ==
  /\ range.high - range.low >= MinRangeSize
  /\ multiplier(range) <= MultiplierOfSize(MinRangeSize)

\* C29: whenever status is idle, baseBet <= balance (a lost round caps the
\* next default stake at the remaining balance, a cashout only raises
\* balance, the stake field and the 2x button cap at balance), so that no
\* reachable state lets playRound take its insufficient-balance rejection.
C29_IdleStakeCovered ==
  /\ status = "idle" => Le(baseBet, balance)
  /\ ~ (PlayEnabled /\ status = "idle" /\ Lt(Zero, ActiveBet) /\ Lt(balance, ActiveBet))
  /\ payError # "Insufficient balance"

\* a lost round has left less than the default stake, which was cut to it
C29_Witness ==
  /\ status = "idle"
  /\ started # << >>
  /\ userBets # << >>
  /\ userBets[Len(userBets)].result = "loss"
  /\ baseBet = balance
  /\ Lt(baseBet, started[Len(started)].baseBet)

\* C30: the range recorded in the win entry that handleCashout appends is
\* the range snapshot against which the last (winning) round of the streak
\* was resolved, even if the range was edited while status was won_streak.
C30_CashoutLogsRoundRange ==
  [][(status = "won_streak" /\ status' = "idle")
     => /\ Len(userBets') = Len(userBets) + 1
        /\ userBets'[Len(userBets')].result = "win"
        /\ userBets'[Len(userBets')].range = resolved[Len(resolved)].range]_vars

====
